---- MODULE Spec2Model ----
(***************************************************************************)
(* A model of MemoryManager (memory.py): the bounded short-term buffer,    *)
(* the user-message counter, the summarization trigger with its delegate   *)
(* call, the placeholder long-term store and retrieval, the context read   *)
(* and the prompt composer.                                                *)
(*                                                                         *)
(* One MemoryManager is driven by one caller (the conversation loop).      *)
(* Every method is a synchronous Python call: the caller's position is pc, *)
(* "idle" between calls and "llm" while maybe_summarize_short_term waits   *)
(* at line 70 for llm_module.generate_response_for_memory to come back.    *)
(***************************************************************************)
EXTENDS Integers, Sequences, FiniteSets, TLC

(***************************************************************************)
(* Bounds of the model.                                                    *)
(***************************************************************************)
\* largest short_term_limit a manager is constructed with
MaxLimit == 2
\* add_to_short_term calls with a user role are cut off at this many
MaxUserTurns == 20
\* store_long_term_memory calls are cut off at this many
MaxStores == 2

(***************************************************************************)
(* Inputs.                                                                 *)
(***************************************************************************)
\* short_term_limit is any int the constructor is handed: negative, 0, positive
Limits == (0 - 1)..MaxLimit
\* role strings a caller passes: two spellings of the user role and the AI
Roles == {"User", "user", "AI"}
\* a text that is put into a prompt is the tuple of its lines (the string
\* split at "\n"): "a" is <<"a">>, "" is <<"">>, "x\n\ny" is <<"x", "", "y">>
Contents == {<<"a">>}
\* what the delegate returns, what is stored and what is asked for
Summaries == {"s1", "s2"}
Queries == Summaries
\* build_llm_prompt's arguments: the new message and the list of memory texts
Messages == {<<"hi">>}
MemoryLists == {<<>>, << <<"m1">> >>}

VARIABLES
    short_term_limit,     \* self.short_term_limit
    short_term,           \* self.short_term, a list of "role: content" lines
    user_message_count,   \* self.user_message_count
    collection,           \* self.collection
    pc,                   \* the caller's position: "idle" or "llm"
    store_calls,          \* the summaries store_long_term_memory was called with
    lastCall,             \* the latest call: its name, outcome and return value
    appended,             \* history: the latest MaxLimit + 1 lines appended
    user_calls            \* history: add_to_short_term calls made with a user role

vars == <<short_term_limit, short_term, user_message_count, collection, pc,
          store_calls, lastCall, appended, user_calls>>

(***************************************************************************)
(* Pure helpers.                                                           *)
(***************************************************************************)
\* f"{prefix}{text}": the prefix goes before the first line of the text
Embed(prefix, text) == <<prefix \o Head(text)>> \o Tail(text)

\* f"{role}: {content}"
Line(role, content) == Embed(role \o ": ", content)

\* str.lower() on the role strings
Lower(role) ==
    CASE role = "User" -> "user"
      [] role = "user" -> "user"
      [] role = "AI"   -> "ai"

\* "\n".join(texts): "" for the empty list, else the lines of all the texts
RECURSIVE JoinLines(_)
JoinLines(texts) ==
    IF texts = <<>> THEN <<"">>
    ELSE IF Len(texts) = 1 THEN Head(texts)
    ELSE Head(texts) \o JoinLines(Tail(texts))

\* list.pop(0) with the list non-empty: the list without its first element
PopBack(buf) == SubSeq(buf, 1, Len(buf) - 1)
PopFront(buf) == Tail(buf)

\* the loop condition len(self.short_term) > self.short_term_limit
OverLimitOffByOne(buf, limit) == Len(buf) > limit + 1
OverLimit(buf, limit) == Len(buf) > limit

\* while len(self.short_term) > self.short_term_limit: self.short_term.pop(0)
\* pop(0) on an empty list raises IndexError and leaves the list empty
RECURSIVE EvictLoop(_, _)
EvictLoop(buf, limit) ==
    IF OverLimit(buf, limit)
      THEN IF buf = <<>>
             THEN [buf |-> buf, exc |-> "IndexError"]
             ELSE EvictLoop(PopFront(buf), limit)
      ELSE [buf |-> buf, exc |-> "none"]

\* self.user_message_count % 10 == 0 and self.user_message_count > 0
SummarizeEvery == 10
ShouldSummarizeAlways(count) == count > 0
ShouldSummarizeAtZero(count) == count % SummarizeEvery = 0
ShouldSummarize(count) == count % SummarizeEvery = 0 /\ count > 0

\* conversation_text = "\n".join(self.short_term)
ConversationTextWithoutOldest(buf) ==
    JoinLines(IF buf = <<>> THEN buf ELSE Tail(buf))
ConversationText(buf) == JoinLines(buf)

\* the prompt of lines 63-67, as its lines: the template's lines are indented
Indent == "            "
SummaryPrompt(buf) ==
    <<"Summarize the following conversation into key points or Q&A pairs:",
      Indent \o "---">>
    \o Embed(Indent, ConversationText(buf))
    \o <<Indent \o "---",
         Indent \o "Return the most important facts or topics that should be remembered.">>

\* a call record: name, exception ("none" when it returned, "pending" while
\* it has not come back), whether the summarization branch was entered, the
\* query asked (for build_llm_prompt the pair of its arguments), the value
\* returned and the prompt handed to the delegate
Call(op, exc, fired, query, ret, prompt) ==
    [op |-> op, exc |-> exc, fired |-> fired, query |-> query, ret |-> ret,
     prompt |-> prompt]

\* the latest n elements of s (all of s when it has fewer)
LastOf(s, n) == SubSeq(s, Len(s) - n + 1, Len(s))
Window(s) == IF Len(s) > MaxLimit + 1 THEN LastOf(s, MaxLimit + 1) ELSE s

(***************************************************************************)
(* __init__                                                                *)
(***************************************************************************)
Init ==
    /\ short_term_limit \in Limits
    /\ short_term = <<>>
    /\ user_message_count = 0
    /\ collection = "None"
    /\ pc = "idle"
    /\ store_calls = <<>>
    /\ lastCall = Call("__init__", "none", FALSE, "", <<>>, <<>>)
    /\ appended = <<>>
    /\ user_calls = 0

(***************************************************************************)
(* add_to_short_term(role, content)                                        *)
(***************************************************************************)
AddWith(roles, contents) ==
    \E role \in roles, content \in contents :
        LET line == Line(role, content)
            ev   == EvictLoop(Append(short_term, line), short_term_limit)
            user == Lower(role) = "user"
        IN  /\ pc = "idle"
            /\ role \in {"User", "user"} => user_calls < MaxUserTurns
            /\ short_term' = ev.buf
            /\ user_message_count' =
                   IF ev.exc = "none" /\ user
                     THEN user_message_count + 1
                     ELSE user_message_count
            /\ lastCall' = Call("add_to_short_term", ev.exc, FALSE, "", <<>>, <<>>)
            /\ appended' = Window(Append(appended, line))
            /\ user_calls' = IF role \in {"User", "user"}
                               THEN user_calls + 1 ELSE user_calls
            /\ UNCHANGED <<collection, short_term_limit, pc, store_calls>>

AddToShortTerm == AddWith(Roles, Contents)

(***************************************************************************)
(* maybe_summarize_short_term(llm_module), lines 58-70: the trigger test,  *)
(* the prompt, and the call of the delegate, which has not yet come back.  *)
(* When the test fails the method returns at once.                         *)
(***************************************************************************)
MaybeSummarizeShortTerm ==
    /\ pc = "idle"
    /\ IF ShouldSummarize(user_message_count)
         THEN /\ Len(store_calls) < MaxStores
              /\ pc' = "llm"
              /\ lastCall' = Call("maybe_summarize_short_term", "pending", TRUE, "",
                                  <<>>, SummaryPrompt(short_term))
         ELSE /\ pc' = pc
              /\ lastCall' = Call("maybe_summarize_short_term", "none", FALSE, "", <<>>, <<>>)
    /\ UNCHANGED <<collection, short_term_limit, short_term, user_message_count, store_calls,
                   appended, user_calls>>

\* store_long_term_memory(summary): prints the summary; nothing else is kept
StoreLongTermMemoryEffect(calls, summary) == Append(calls, summary)

(***************************************************************************)
(* maybe_summarize_short_term, lines 70-74: the delegate returns a summary *)
(* and store_long_term_memory(summary) is called with it.                  *)
(***************************************************************************)
DelegateReturnsDraining ==
    \E summary \in Summaries :
        /\ pc = "llm"
        /\ store_calls' = StoreLongTermMemoryEffect(store_calls, summary)
        /\ short_term' = <<>>
        /\ pc' = "idle"
        /\ lastCall' = Call("maybe_summarize_short_term", "none", TRUE, "", <<>>, <<>>)
        /\ UNCHANGED <<collection, short_term_limit, user_message_count, appended, user_calls>>

DelegateReturns ==
    \E summary \in Summaries :
        /\ pc = "llm"
        /\ store_calls' = StoreLongTermMemoryEffect(store_calls, summary)
        /\ pc' = "idle"
        /\ lastCall' = Call("maybe_summarize_short_term", "none", TRUE, "", <<>>, <<>>)
        /\ UNCHANGED <<collection, short_term_limit, short_term, user_message_count,
                       appended, user_calls>>

(***************************************************************************)
(* maybe_summarize_short_term, line 70: the delegate raises. No try        *)
(* encloses the call, so lines 71-74 are skipped and the exception leaves  *)
(* maybe_summarize_short_term for its caller.                              *)
(***************************************************************************)
DelegateRaisesStoring ==
    /\ pc = "llm"
    /\ store_calls' = StoreLongTermMemoryEffect(store_calls, "")
    /\ pc' = "idle"
    /\ lastCall' = Call("maybe_summarize_short_term", "GenerationError", TRUE, "", <<>>, <<>>)
    /\ UNCHANGED <<collection, short_term_limit, short_term, user_message_count,
                   appended, user_calls>>

DelegateRaises ==
    /\ pc = "llm"
    /\ pc' = "idle"
    /\ lastCall' = Call("maybe_summarize_short_term", "GenerationError", TRUE, "", <<>>, <<>>)
    /\ UNCHANGED <<collection, short_term_limit, short_term, user_message_count, store_calls,
                   appended, user_calls>>

(***************************************************************************)
(* store_long_term_memory(summary), called by the caller itself            *)
(***************************************************************************)
StoreLongTermMemory ==
    \E summary \in Summaries :
        /\ pc = "idle"
        /\ Len(store_calls) < MaxStores
        /\ store_calls' = StoreLongTermMemoryEffect(store_calls, summary)
        /\ lastCall' = Call("store_long_term_memory", "none", FALSE, "", <<>>, <<>>)
        /\ UNCHANGED <<collection, short_term_limit, short_term, user_message_count, pc,
                       appended, user_calls>>

(***************************************************************************)
(* get_relevant_memories(query): prints the query and returns []           *)
(***************************************************************************)
GetRelevantMemoriesQuerying ==
    \E query \in Queries :
        /\ pc = "idle"
        /\ lastCall' = IF collection = "None"
                         THEN Call("get_relevant_memories", "AttributeError", FALSE,
                                   query, <<>>, <<>>)
                         ELSE Call("get_relevant_memories", "none", FALSE, query,
                                   <<>>, <<>>)
        /\ UNCHANGED <<collection, short_term_limit, short_term, user_message_count,
                       pc, store_calls, appended, user_calls>>

GetRelevantMemories ==
    \E query \in Queries :
        /\ pc = "idle"
        /\ lastCall' = Call("get_relevant_memories", "none", FALSE, query, <<>>, <<>>)
        /\ UNCHANGED <<collection, short_term_limit, short_term, user_message_count, pc,
                       store_calls, appended, user_calls>>

(***************************************************************************)
(* get_short_term_context(): returns self.short_term, the list itself      *)
(***************************************************************************)
GetShortTermContextDraining ==
    /\ pc = "idle"
    /\ lastCall' = Call("get_short_term_context", "none", FALSE, "", short_term, <<>>)
    /\ short_term' = <<>>
    /\ UNCHANGED <<collection, short_term_limit, user_message_count,
                   pc, store_calls, appended, user_calls>>

GetShortTermContext ==
    /\ pc = "idle"
    /\ lastCall' = Call("get_short_term_context", "none", FALSE, "", short_term, <<>>)
    /\ UNCHANGED <<collection, short_term_limit, short_term, user_message_count,
                   pc, store_calls, appended, user_calls>>

(***************************************************************************)
(* build_llm_prompt(user_message, relevant_memories)                       *)
(***************************************************************************)
\* the fixed lines of the template of lines 119-130
FactsHeader == "You are a helpful assistant. Below are relevant facts from memory:"
ConversationHeader == "Here is the recent conversation:"
MessageHeader == "Now the user says:"
ClosingInstruction == "Please respond in a clear and concise manner."

\* the returned string, as its lines: the template opens and ends with "\n"
ComposePromptSkippingEmpty(user_message, relevant_memories, buf) ==
    (IF relevant_memories = <<>> THEN <<>>
     ELSE <<"", FactsHeader>> \o JoinLines(relevant_memories))
    \o <<"", ConversationHeader>> \o JoinLines(buf)
    \o <<"", MessageHeader>> \o Embed("User: ", user_message)
    \o <<"", ClosingInstruction, "">>

ComposePrompt(user_message, relevant_memories, buf) ==
    <<"", FactsHeader>> \o JoinLines(relevant_memories)
    \o <<"", ConversationHeader>> \o JoinLines(buf)
    \o <<"", MessageHeader>> \o Embed("User: ", user_message)
    \o <<"", ClosingInstruction, "">>

BuildWith(messages, memoryLists) ==
    \E user_message \in messages, relevant_memories \in memoryLists :
        /\ pc = "idle"
        /\ lastCall' = Call("build_llm_prompt", "none", FALSE,
                            <<user_message, relevant_memories>>,
                            ComposePrompt(user_message, relevant_memories, short_term),
                            <<>>)
        /\ UNCHANGED <<collection, short_term_limit, short_term, user_message_count,
                       pc, store_calls, appended, user_calls>>

BuildLlmPrompt == BuildWith(Messages, MemoryLists)

Next ==
    \/ AddToShortTerm
    \/ MaybeSummarizeShortTerm
    \/ DelegateReturns
    \/ DelegateRaises
    \/ StoreLongTermMemory
    \/ GetRelevantMemories
    \/ GetShortTermContext
    \/ BuildLlmPrompt

Spec == Init /\ [][Next]_vars

(***************************************************************************)
(* Consolidation on its own: only add_to_short_term and                    *)
(* maybe_summarize_short_term are called, so every entry of store_calls    *)
(* comes from a firing of the trigger.                                     *)
(***************************************************************************)
NextConsolidation ==
    \/ AddToShortTerm
    \/ MaybeSummarizeShortTerm
    \/ DelegateReturns
    \/ DelegateRaises

SpecConsolidation == Init /\ [][NextConsolidation]_vars

(***************************************************************************)
(* The caller keeps the list get_short_term_context returned. That list is *)
(* self.short_term itself (line 49 returns the object, not a copy), and    *)
(* the buffer is only ever changed in place (append, pop), so what the     *)
(* caller does to the list it holds is done to self.short_term.            *)
(***************************************************************************)
CallerLines == {<<"caller's line">>}
HoldsReturnedList ==
    lastCall.op \in {"get_short_term_context", "returned.append", "returned.pop"}

\* returned.append(line)
CallerAppends ==
    \E line \in CallerLines :
        /\ pc = "idle"
        /\ HoldsReturnedList
        /\ Len(short_term) <= MaxLimit
        /\ short_term' = Append(short_term, line)
        /\ lastCall' = Call("returned.append", "none", FALSE, "", <<>>, <<>>)
        /\ UNCHANGED <<collection, short_term_limit, user_message_count,
                       pc, store_calls, appended, user_calls>>

\* returned.pop(): the last element goes
CallerPops ==
    /\ pc = "idle"
    /\ HoldsReturnedList
    /\ short_term # <<>>
    /\ short_term' = SubSeq(short_term, 1, Len(short_term) - 1)
    /\ lastCall' = Call("returned.pop", "none", FALSE, "", <<>>, <<>>)
    /\ UNCHANGED <<collection, short_term_limit, user_message_count,
                   pc, store_calls, appended, user_calls>>

NextAlias ==
    \/ AddToShortTerm
    \/ GetShortTermContext
    \/ CallerAppends
    \/ CallerPops

SpecAlias == Init /\ [][NextAlias]_vars

(***************************************************************************)
(* The prompt composer on its own: the buffer is filled with turns whose   *)
(* text has several lines and may repeat a line of the template, and       *)
(* build_llm_prompt is given such messages and memories.                   *)
(***************************************************************************)
PromptRoles == {"User", "AI"}
PromptContents == {<<"x">>, <<"y", "", ConversationHeader, "AI: x">>}
PromptMessages == {<<"hi">>, <<"hi", "", ClosingInstruction>>}
PromptMemoryLists ==
    {<<>>, << <<"m1">> >>, << <<"m1">>, <<"", ConversationHeader, "AI: y">> >>}

AddToShortTermPrompt == AddWith(PromptRoles, PromptContents)
BuildLlmPromptAny == BuildWith(PromptMessages, PromptMemoryLists)

NextPrompt ==
    \/ AddToShortTermPrompt
    \/ BuildLlmPromptAny

SpecPrompt == Init /\ [][NextPrompt]_vars

(***************************************************************************)
(* Helpers of the properties.                                              *)
(***************************************************************************)
Min(a, b) == IF a < b THEN a ELSE b
Max(a, b) == IF a > b THEN a ELSE b
\* c = K, 2K, 3K, ...
PositiveMultiple(c, k) == \E m \in 1..c : c = m * k
\* s is the beginning of t
IsPrefix(s, t) == Len(s) <= Len(t) /\ SubSeq(t, 1, Len(s)) = s
AddReturned == lastCall.op = "add_to_short_term" /\ lastCall.exc = "none"
InMaybeSummarize == lastCall.op = "maybe_summarize_short_term"

(***************************************************************************)
(* C1: in the state reached when an add_to_short_term call returns, the    *)
(* number of lines in short_term is at most short_term_limit, for every    *)
(* limit and every sequence of calls.                                      *)
(***************************************************************************)
C1_LengthWithinLimit ==
    AddReturned => Len(short_term) <= short_term_limit

\* a call returned with the buffer full and an older line evicted
C1_Witness ==
    /\ AddReturned
    /\ short_term_limit >= 2
    /\ Len(short_term) = short_term_limit
    /\ Len(appended) > short_term_limit

(***************************************************************************)
(* C2: short_term is exactly the latest N lines appended, in the order     *)
(* they were appended, N being short_term_limit (no line for a negative    *)
(* limit), and all lines appended when fewer than N were.                  *)
(***************************************************************************)
C2_HoldsLatestAppended ==
    short_term = LastOf(appended, Min(Max(short_term_limit, 0), Len(appended)))

\* two different lines are kept, in order, after an older one was evicted
C2_Witness ==
    /\ AddReturned
    /\ short_term_limit >= 2
    /\ Len(appended) > short_term_limit
    /\ Len(short_term) = short_term_limit
    /\ short_term[1] # short_term[2]
    /\ appended[1] # short_term[1]

(***************************************************************************)
(* C3: user_message_count equals the number of add_to_short_term calls     *)
(* made so far with a user role.                                           *)
(***************************************************************************)
C3_CountEqualsUserCalls ==
    user_message_count = user_calls

(***************************************************************************)
(* C4: maybe_summarize_short_term enters summarization (calls the          *)
(* delegate) exactly when user_message_count is a positive multiple of 10, *)
(* whatever the buffer holds, and so never at count 0.                     *)
(***************************************************************************)
C4_FiresOnPositiveMultiples ==
    /\ InMaybeSummarize =>
           (lastCall.fired <=> PositiveMultiple(user_message_count, 10))
    /\ pc = "llm" => PositiveMultiple(user_message_count, 10)

\* the trigger fired at the second multiple with nothing in the buffer
C4_Witness ==
    /\ InMaybeSummarize
    /\ lastCall.fired
    /\ pc = "llm"
    /\ user_message_count = 20
    /\ short_term = <<>>

(***************************************************************************)
(* C5: add_to_short_term never raises, for every short_term_limit          *)
(* (0 and negative values included), role and content.                     *)
(***************************************************************************)
C5_AddNeverRaises ==
    lastCall.op = "add_to_short_term" => lastCall.exc = "none"

(***************************************************************************)
(* C6: no step of maybe_summarize_short_term (trigger not fired, delegate  *)
(* returned, delegate raised) changes short_term or user_message_count,    *)
(* and a step that removes a line from short_term is an add_to_short_term. *)
(***************************************************************************)
C6_SummarizationKeepsBuffer ==
    [][ /\ lastCall'.op = "maybe_summarize_short_term" =>
               /\ short_term' = short_term
               /\ user_message_count' = user_message_count
        /\ ~IsPrefix(short_term, short_term') =>
               lastCall'.op = "add_to_short_term" ]_vars

\* a summary was stored and the lines it was made from are still buffered
C6_Witness ==
    /\ InMaybeSummarize
    /\ lastCall.fired
    /\ lastCall.exc = "none"
    /\ store_calls # <<>>
    /\ Len(short_term) = 2

(***************************************************************************)
(* C7: when the delegate raises, store_long_term_memory is not called for  *)
(* that firing; within maybe_summarize_short_term it is called only in the *)
(* step in which the delegate returned, with the summary it returned.      *)
(***************************************************************************)
C7_NoStoreWithoutSummary ==
    [][ /\ lastCall'.exc = "GenerationError" => store_calls' = store_calls
        /\ (lastCall'.op = "maybe_summarize_short_term" /\ store_calls' # store_calls) =>
               /\ pc = "llm"
               /\ lastCall'.exc = "none"
               /\ \E s \in Summaries : store_calls' = Append(store_calls, s) ]_vars

\* the delegate raised at a firing and nothing was stored
C7_Witness ==
    /\ InMaybeSummarize
    /\ lastCall.fired
    /\ lastCall.exc = "GenerationError"
    /\ store_calls = <<>>

(***************************************************************************)
(* C8: a failure of the delegate during consolidation does not reach the   *)
(* caller of maybe_summarize_short_term.                                   *)
(***************************************************************************)
C8_FailureStaysInside ==
    InMaybeSummarize => lastCall.exc # "GenerationError"

(***************************************************************************)
(* C9: while the delegate call started by a firing has not come back, an   *)
(* add_to_short_term for the next turn can be performed.                   *)
(***************************************************************************)
C9_AddNotBlocked ==
    pc = "llm" => ENABLED AddToShortTerm

(***************************************************************************)
(* C10: after store_long_term_memory(s), get_relevant_memories(q) with q   *)
(* the very text s (no stored text is closer to q) returns s ranked first. *)
(***************************************************************************)
C10_RoundTrip ==
    (/\ lastCall.op = "get_relevant_memories"
     /\ \E i \in 1..Len(store_calls) : store_calls[i] = lastCall.query)
        => (lastCall.ret # <<>> /\ Head(lastCall.ret) = lastCall.query)

(***************************************************************************)
(* C11: get_relevant_memories returns the empty list and raises nothing,   *)
(* for every query, when nothing was stored and when no vector backend is  *)
(* configured (collection is None).                                        *)
(***************************************************************************)
C11_EmptyStoreGivesEmptyList ==
    (/\ lastCall.op = "get_relevant_memories"
     /\ (store_calls = <<>> \/ collection = "None"))
        => (lastCall.exc = "none" /\ lastCall.ret = <<>>)

\* a query was answered with nothing stored and no backend configured
C11_Witness ==
    /\ lastCall.op = "get_relevant_memories"
    /\ lastCall.query \in Queries
    /\ store_calls = <<>>
    /\ collection = "None"
    /\ lastCall.ret = <<>>

(***************************************************************************)
(* C12: build_llm_prompt returns one string in which the facts header, the *)
(* joined memories, the conversation header, the joined buffer, the        *)
(* message header, the new message and the closing instruction come in     *)
(* that order, for every input; with no memories the facts header is still *)
(* there, over an empty body.                                              *)
(***************************************************************************)
C12_SectionsInFixedOrder ==
    lastCall.op = "build_llm_prompt" =>
        LET p == lastCall.ret
            f == JoinLines(lastCall.query[2])
            c == JoinLines(short_term)
            u == Embed("User: ", lastCall.query[1])
            a == 2
            b == a + Len(f) + 2
            d == b + Len(c) + 2
            e == d + Len(u) + 2
        IN  /\ lastCall.exc = "none"
            /\ p[a] = FactsHeader
            /\ SubSeq(p, a + 1, a + Len(f)) = f
            /\ p[b - 1] = "" /\ p[b] = ConversationHeader
            /\ SubSeq(p, b + 1, b + Len(c)) = c
            /\ p[d - 1] = "" /\ p[d] = MessageHeader
            /\ SubSeq(p, d + 1, d + Len(u)) = u
            /\ p[e - 1] = "" /\ p[e] = ClosingInstruction
            /\ Len(p) = e + 1
            /\ lastCall.query[2] = <<>> =>
                   (p[3] = "" /\ p[4] = "" /\ p[5] = ConversationHeader)

\* a prompt was built from no memories and an empty buffer
C12_Witness ==
    /\ lastCall.op = "build_llm_prompt"
    /\ lastCall.query[2] = <<>>
    /\ short_term = <<>>
    /\ lastCall.ret[2] = FactsHeader
    /\ lastCall.ret[5] = ConversationHeader

(***************************************************************************)
(* C13: cutting the returned prompt at the first facts header, the next    *)
(* conversation header, the next message header and the closing            *)
(* instruction that ends it gives back the joined memories, the joined     *)
(* buffer lines and the user message, also when one of them holds a line   *)
(* equal to a header.                                                      *)
(***************************************************************************)
FirstIndex(seq, line, from) ==
    CHOOSE i \in from..Len(seq) :
        seq[i] = line /\ \A j \in from..(i - 1) : seq[j] # line

ParseSections(p) ==
    LET i1 == FirstIndex(p, FactsHeader, 1)
        i2 == FirstIndex(p, ConversationHeader, i1 + 1)
        i3 == FirstIndex(p, MessageHeader, i2 + 1)
        i4 == Len(p) - 1
    IN  [facts        |-> SubSeq(p, i1 + 1, i2 - 2),
         conversation |-> SubSeq(p, i2 + 1, i3 - 2),
         message      |-> SubSeq(p, i3 + 1, i4 - 2)]

C13_SectionsRecoverable ==
    lastCall.op = "build_llm_prompt" =>
        ParseSections(lastCall.ret) =
            [facts        |-> JoinLines(lastCall.query[2]),
             conversation |-> JoinLines(short_term),
             message      |-> Embed("User: ", lastCall.query[1])]

(***************************************************************************)
(* C14: get_short_term_context, get_relevant_memories and build_llm_prompt *)
(* leave short_term, user_message_count and the long-term store as they    *)
(* were, and get_short_term_context returns the resident lines, which are  *)
(* the latest lines appended, in the order they were appended.             *)
(***************************************************************************)
C14_ReadsChangeNothing ==
    [][ /\ lastCall'.op \in {"get_short_term_context", "get_relevant_memories",
                              "build_llm_prompt"} =>
               /\ short_term' = short_term
               /\ user_message_count' = user_message_count
               /\ store_calls' = store_calls
               /\ collection' = collection
        /\ lastCall'.op = "get_short_term_context" =>
               /\ lastCall'.ret = short_term
               /\ lastCall'.ret =
                      LastOf(appended, Min(Max(short_term_limit, 0), Len(appended))) ]_vars

\* the context was returned with two different lines in it, after an eviction
C14_Witness ==
    /\ lastCall.op = "get_short_term_context"
    /\ Len(lastCall.ret) = 2
    /\ lastCall.ret[1] # lastCall.ret[2]
    /\ lastCall.ret = short_term
    /\ Len(appended) > 2

(***************************************************************************)
(* C15: every record of the long-term store's mapping has an entry in its  *)
(* index, and a store_long_term_memory call that has returned has put its  *)
(* summary into both.                                                      *)
(***************************************************************************)
\* the documents and the embeddings a collection holds: none when it is None
RecordsOf(c) == IF c = "None" THEN {} ELSE c.documents
IndexOf(c) == IF c = "None" THEN {} ELSE c.embeddings

C15_StoreInsertsInBoth ==
    /\ RecordsOf(collection) \subseteq IndexOf(collection)
    /\ (lastCall.op = "store_long_term_memory" /\ lastCall.exc = "none") =>
           /\ store_calls[Len(store_calls)] \in RecordsOf(collection)
           /\ store_calls[Len(store_calls)] \in IndexOf(collection)

(***************************************************************************)
(* C16: when the trigger fires, the conversation text inside the prompt    *)
(* handed to the delegate is the lines resident in short_term at that      *)
(* moment, all of them, in buffer order, and nothing else: they are the    *)
(* latest lines appended, without any line evicted before.                 *)
(***************************************************************************)
C16_SnapshotAtTrigger ==
    pc = "llm" =>
        LET p == lastCall.prompt
            resident == JoinLines(short_term)
            latest == JoinLines(LastOf(appended,
                          Min(Max(short_term_limit, 0), Len(appended))))
        IN  /\ Len(p) = Len(resident) + 4
            /\ SubSeq(p, 3, Len(p) - 2) = Embed(Indent, resident)
            /\ resident = latest

\* a firing with two different lines resident and older ones evicted
C16_Witness ==
    /\ pc = "llm"
    /\ Len(short_term) = 2
    /\ short_term[1] # short_term[2]
    /\ Len(appended) > 2
    /\ Len(lastCall.prompt) = 6

(***************************************************************************)
(* C17: the trigger fires although counted user turns have been evicted:   *)
(* with a limit below 10, at every firing the window handed to the         *)
(* delegate holds fewer user lines than the 10 counted since the firing    *)
(* before, and fewer than user_message_count, so a counted user turn is    *)
(* missing from the window.                                                *)
(***************************************************************************)
IsUserLine(l) ==
    \E role \in Roles, content \in Contents :
        Lower(role) = "user" /\ l = Line(role, content)
UserLineCount(buf) == Cardinality({i \in 1..Len(buf) : IsUserLine(buf[i])})

C17_FiringWindowMissesUserTurns ==
    (pc = "llm" /\ short_term_limit < 10) =>
        /\ UserLineCount(short_term) < 10
        /\ UserLineCount(short_term) < user_message_count

\* the first firing, nothing summarized before: ten user turns were counted,
\* user and AI turns alternated, and one user line is left in the window
C17_Witness ==
    /\ pc = "llm"
    /\ user_message_count = 10
    /\ user_calls = 10
    /\ store_calls = <<>>
    /\ short_term_limit = 2
    /\ Len(short_term) = 2
    /\ UserLineCount(short_term) = 1

(***************************************************************************)
(* C18: in a sequence of add_to_short_term and maybe_summarize_short_term  *)
(* calls, at most one summary is stored for each positive multiple of 10   *)
(* that user_message_count has reached.                                    *)
(***************************************************************************)
C18_OneSummaryPerMultiple ==
    Len(store_calls) * 10 <= user_message_count

(***************************************************************************)
(* C19: nothing the caller does to a list get_short_term_context returned  *)
(* changes short_term or makes it longer than short_term_limit.            *)
(***************************************************************************)
C19_ReturnedListNotShared ==
    [][ lastCall'.op \in {"returned.append", "returned.pop"} =>
            /\ short_term' = short_term
            /\ Len(short_term') <= Max(short_term_limit, 0) ]_vars
====
